---- MODULE Spec2Model ----
(***************************************************************************)
(* Direct-messaging core of the Mesh backend: the message controller       *)
(* (send, voice note, list, thread, read, reactions, conversations) over   *)
(* the Message collection.                                                 *)
(*                                                                         *)
(* A message id is its position in msgs (ids are assigned in insertion     *)
(* order and messages are never deleted).  NoId stands for null.           *)
(* Dates are integers; a day is DayLen consecutive instants.               *)
(* A document save persists the changes tracked on the loaded document,    *)
(* as Mongoose does: a push on an array is sent as $push, a replaced or    *)
(* spliced array as $set of the whole array guarded by the version key,    *)
(* a changed field of an array element as a positional $set guarded by     *)
(* the version key, a changed scalar path as $set of that path.            *)
(***************************************************************************)
EXTENDS Integers, Sequences, FiniteSets, TLC

\* ---------------------------------------------------------------- bounds
MaxMsgs == 2
MaxThread == 3
MaxTime == 2
MaxReqs == 2
MaxVersion == 2
MaxSockets == 2

\* ------------------------------------------------------ program constants
DefaultLimit == 50
MaxLimit == 100
DefaultPageSize == 5

\* ---------------------------------------------------------------- domains
Users == {"u1", "u2", "u3"}
NoUser == "none"
GhostUser == "ghost"
Emojis == {"up", "heart"}
NoEmoji == ""
NoId == 0
\* a well-formed id that names no stored message
GhostId == MaxMsgs + MaxThread + 1
DayLen == 2
Chars == {"h", "H", "i", " "}
NoText == << >>
Contents == {<<"h", "i">>, <<"H">>}
Queries == {NoText, <<" ">>, <<"h">>, <<"I">>}

VARIABLES msgs, clock, tieAsc, reqs, resp, chain, sockets, io, pushes

vars == <<msgs, clock, tieAsc, reqs, resp, chain, sockets, io, pushes>>

Ids == 1..Len(msgs)
Exists(id) == id \in Ids

Min(a, b) == IF a < b THEN a ELSE b
Max(a, b) == IF a > b THEN a ELSE b

\* ------------------------------------------------------------ responses
NoResp ==
  [op |-> "none", user |-> NoUser, other |-> NoUser, status |-> 0, mid |-> NoId,
   before |-> 0, page |-> 0, limit |-> 0, messages |-> << >>, conversations |-> << >>,
   hasMore |-> FALSE, total |-> 0, count |-> 0, events |-> << >>]

Respond(op, user, status) ==
  [NoResp EXCEPT !.op = op, !.user = user, !.status = status]

\* ---------------------------------------------------------- request slots
Slots == 1..MaxReqs
Idle == [op |-> "idle"]
IsFree(s) == reqs[s].op = "idle"
HasFree == \E s \in Slots : IsFree(s)
FreeSlot == CHOOSE s \in Slots : IsFree(s) /\ \A t \in Slots : IsFree(t) => s <= t

\* toString() of an ObjectId is its hex text; toString() of a populated path,
\* which holds the referenced user document, is that document's inspection text
idToString(userId) == <<userId>>
populatedToString(userId) == <<"{ _id:", userId, "}">>

\* ------------------------------------------------------------- realtime
\* a live channel is a connected socket; sockets[k] is the set of rooms it joined
Sockets == 1..MaxSockets

\* socket.on("join", userId => { if (userId) socket.join(userId) })
join(k, userId) ==
  /\ userId # NoUser
  /\ sockets' = [sockets EXCEPT ![k] = @ \cup {idToString(userId)}]
  /\ UNCHANGED <<msgs, clock, tieAsc, reqs, resp, chain, io, pushes>>

\* a disconnected socket has left every room
disconnect(k) ==
  /\ sockets[k] # {}
  /\ sockets' = [sockets EXCEPT ![k] = {}]
  /\ UNCHANGED <<msgs, clock, tieAsc, reqs, resp, chain, io, pushes>>

\* io.to(room).emit(event, payload): the sockets in the room receive it
emit(event, room, mid, threadId) ==
  [event |-> event, room |-> room, mid |-> mid, threadId |-> threadId,
   to |-> {k \in Sockets : room \in sockets[k]}]

\* a relay that also echoes to the sender's room
typing_echo(senderId, recipientId) ==
  /\ resp' = IF recipientId = NoUser THEN Respond("typing", senderId, 0)
             ELSE [Respond("typing", senderId, 0) EXCEPT
                     !.other = recipientId,
                     !.events = <<emit("typing", idToString(recipientId), NoId, NoId),
                                  emit("typing", idToString(senderId), NoId, NoId)>>]
  /\ UNCHANGED <<msgs, clock, tieAsc, reqs, chain, sockets, io, pushes>>

\* socket.on("typing", ({ senderId, recipientId }) => ...): nothing without a
\* recipientId, else a typing emit to the recipient's room
typing(senderId, recipientId) ==
  /\ resp' = IF recipientId = NoUser THEN Respond("typing", senderId, 0)
             ELSE [Respond("typing", senderId, 0) EXCEPT
                     !.other = recipientId,
                     !.events = <<emit("typing", idToString(recipientId), NoId, NoId)>>]
  /\ UNCHANGED <<msgs, clock, tieAsc, reqs, chain, sockets, io, pushes>>

\* the realtime layer works or every emit raises
ioFault ==
  /\ io' = IF io = "up" THEN "down" ELSE "up"
  /\ UNCHANGED <<msgs, clock, tieAsc, reqs, resp, chain, sockets, pushes>>

\* ----------------------------------------------------------------- push
PushOutcomes == {"skipped", "nosubs", "sent", "failed"}

\* a push whose failure reaches the caller of the send
sendPushToUser_surfacing(t, outcome) ==
  /\ t \in pushes
  /\ t.state = "pending"
  /\ pushes' = (pushes \ {t}) \cup {[t EXCEPT !.state = outcome]}
  /\ resp' = IF outcome = "failed" /\ resp.mid = t.mid
             THEN [resp EXCEPT !.status = 500] ELSE resp
  /\ UNCHANGED <<msgs, clock, tieAsc, reqs, chain, sockets, io>>

\* the body of sendPushToUser, which its caller does not await: push not
\* configured, no subscription, notifications sent, or an error caught and logged
sendPushToUser(t, outcome) ==
  /\ t \in pushes
  /\ t.state = "pending"
  /\ pushes' = (pushes \ {t}) \cup {[t EXCEPT !.state = outcome]}
  /\ UNCHANGED <<msgs, clock, tieAsc, reqs, resp, chain, sockets, io>>

\* ------------------------------------------------------- Message schema
NewMessage(sender, recipient, content, messageType, replyTo, threadId) ==
  [sender |-> sender, recipient |-> recipient, content |-> content,
   messageType |-> messageType, threadId |-> threadId, replyTo |-> replyTo,
   reactions |-> << >>, isRead |-> FALSE, readAt |-> 0,
   edited |-> FALSE, editedAt |-> 0, createdAt |-> clock, v |-> 0]

\* a resolution that stops at the parent instead of the parent's thread root
resolveThread_parentId(replyTo) ==
  IF replyTo # NoId /\ Exists(replyTo) THEN replyTo ELSE NoId

\* "inherit root threadId from parent or parent._id"
resolveThread(replyTo) ==
  IF replyTo # NoId /\ Exists(replyTo)
  THEN (IF msgs[replyTo].threadId # NoId THEN msgs[replyTo].threadId ELSE replyTo)
  ELSE NoId

\* a push addressed to the sender instead of the recipient
notifyAndRespond_pushToSender(op, user, recipientId, id, threadId) ==
  IF io = "up"
  THEN /\ resp' = [Respond(op, user, 201) EXCEPT
                     !.mid = id, !.other = recipientId,
                     !.events = <<emit("newMessage", idToString(recipientId), id, threadId),
                                  emit("messageSent", idToString(user), id, threadId)>>]
       /\ pushes' = pushes \cup {[to |-> user, mid |-> id, state |-> "pending"]}
  ELSE /\ resp' = Respond(op, user, 500)
       /\ pushes' = pushes

\* the confirmation to the sender emitted before the event to the recipient
notifyAndRespond_senderFirst(op, user, recipientId, id, threadId) ==
  IF io = "up"
  THEN /\ resp' = [Respond(op, user, 201) EXCEPT
                     !.mid = id, !.other = recipientId,
                     !.events = <<emit("messageSent", idToString(user), id, threadId),
                                  emit("newMessage", idToString(recipientId), id, threadId)>>]
       /\ pushes' = pushes \cup {[to |-> recipientId, mid |-> id, state |-> "pending"]}
  ELSE /\ resp' = Respond(op, user, 500)
       /\ pushes' = pushes

\* the end of a send once the message is saved: newMessage to the recipient's
\* room, messageSent to the sender's room, the push call, the 201 response; an
\* emit that raises is caught by the handler's catch, which answers 500
notifyAndRespond(op, user, recipientId, id, threadId) ==
  IF io = "up"
  THEN /\ resp' = [Respond(op, user, 201) EXCEPT
                     !.mid = id, !.other = recipientId,
                     !.events = <<emit("newMessage", idToString(recipientId), id, threadId),
                                  emit("messageSent", idToString(user), id, threadId)>>]
       /\ pushes' = pushes \cup {[to |-> recipientId, mid |-> id, state |-> "pending"]}
  ELSE /\ resp' = Respond(op, user, 500)
       /\ pushes' = pushes

\* the first save of a new message, then either the rest of the handler or the
\* pending second save that sets a root message's threadId to its own id
InsertAndContinue(op, user, m) ==
  LET id == Len(msgs) + 1 IN
  /\ msgs' = Append(msgs, m)
  /\ IF m.replyTo = NoId /\ m.threadId = NoId
     THEN /\ HasFree
          /\ reqs' = [reqs EXCEPT ![FreeSlot] = [op |-> op, pc |-> "patch", user |-> user, mid |-> id]]
          /\ resp' = resp
          /\ pushes' = pushes
     ELSE /\ reqs' = reqs
          /\ notifyAndRespond(op, user, m.recipient, id, m.threadId)

sendMessage(user, recipientId, content, messageType, replyTo) ==
  /\ IF recipientId = NoUser \/ content = NoText
     THEN /\ resp' = Respond("sendMessage", user, 400)
          /\ UNCHANGED <<msgs, reqs, pushes>>
     ELSE IF recipientId \notin Users
     THEN /\ resp' = Respond("sendMessage", user, 404)
          /\ UNCHANGED <<msgs, reqs, pushes>>
     ELSE InsertAndContinue("sendMessage", user,
            NewMessage(user, recipientId, content, messageType, replyTo, resolveThread(replyTo)))
  /\ UNCHANGED <<clock, tieAsc, sockets, io, chain>>

uploadVoiceNote(user, recipientId, hasFile, replyTo, uploadOk) ==
  /\ IF recipientId = NoUser \/ ~hasFile
     THEN /\ resp' = Respond("uploadVoiceNote", user, 400)
          /\ UNCHANGED <<msgs, reqs, pushes>>
     ELSE IF recipientId \notin Users
     THEN /\ resp' = Respond("uploadVoiceNote", user, 404)
          /\ UNCHANGED <<msgs, reqs, pushes>>
     ELSE IF ~uploadOk
     THEN /\ resp' = Respond("uploadVoiceNote", user, 500)
          /\ UNCHANGED <<msgs, reqs, pushes>>
     ELSE InsertAndContinue("uploadVoiceNote", user,
            NewMessage(user, recipientId, NoText, "audio", replyTo, resolveThread(replyTo)))
  /\ UNCHANGED <<clock, tieAsc, sockets, io, chain>>

\* second save of a root message: message.threadId = message._id
PatchThread(s) ==
  /\ ~IsFree(s)
  /\ reqs[s].pc = "patch"
  /\ msgs' = [msgs EXCEPT ![reqs[s].mid].threadId = reqs[s].mid]
  /\ notifyAndRespond(reqs[s].op, reqs[s].user, msgs[reqs[s].mid].recipient,
                      reqs[s].mid, reqs[s].mid)
  /\ reqs' = [reqs EXCEPT ![s] = Idle]
  /\ UNCHANGED <<clock, tieAsc, sockets, io, chain>>

\* ------------------------------------------------------- query helpers
\* .sort({ createdAt: -1 }): newest first; the store's order among equal
\* timestamps is not specified, tieAsc fixes one of the two id orders
Newer(a, b) ==
  \/ msgs[a].createdAt > msgs[b].createdAt
  \/ /\ msgs[a].createdAt = msgs[b].createdAt
     /\ IF tieAsc THEN a < b ELSE a > b

RECURSIVE SortDesc(_)
SortDesc(S) ==
  IF S = {} THEN << >>
  ELSE LET x == CHOOSE x \in S : \A y \in S \ {x} : Newer(x, y)
       IN <<x>> \o SortDesc(S \ {x})

Take(seq, n) == SubSeq(seq, 1, Min(n, Len(seq)))
Reverse(seq) == [i \in 1..Len(seq) |-> seq[Len(seq) + 1 - i]]
Range(seq) == {seq[i] : i \in 1..Len(seq)}

RECURSIVE FilterSeq(_, _)
FilterSeq(seq, keep) ==
  IF seq = << >> THEN << >>
  ELSE (IF Head(seq) \in keep THEN <<Head(seq)>> ELSE << >>) \o FilterSeq(Tail(seq), keep)

\* Math.max(1, Math.min(parseInt(limitQuery, 10) || 50, 100)); 0 stands for
\* an absent limit as well (both are falsy)
clampLimit(limitQuery) ==
  Max(1, Min(IF limitQuery = 0 THEN DefaultLimit ELSE limitQuery, MaxLimit))

\* find(...).sort({ createdAt: -1 }).limit(limit + 1), then the newest `limit`
\* reversed to ascending order
Page(matching, limitQuery) ==
  LET limit == clampLimit(limitQuery)
      messages == Take(SortDesc(matching), limit + 1)
      hasMore == Len(messages) > limit
      limited == IF hasMore THEN Take(messages, limit) ELSE messages
  IN [messages |-> Reverse(limited), hasMore |-> hasMore]

\* before ? { createdAt: { $lt: new Date(before) } } : {}; 0 is an absent cursor
createdAtFilter(before) ==
  IF before # 0 THEN [lt |-> before, gte |-> 0, lte |-> 0, isRange |-> FALSE]
  ELSE [lt |-> 0, gte |-> 0, lte |-> 0, isRange |-> FALSE]

\* a condition on createdAt as built above: lt, gte, lte, 0 meaning absent
SatisfiesCreatedAt(id, f) ==
  /\ f.lt # 0 => msgs[id].createdAt < f.lt
  /\ f.gte # 0 => msgs[id].createdAt >= f.gte
  /\ f.lte # 0 => msgs[id].createdAt <= f.lte

threadMatching(threadId, before) ==
  {id \in Ids : msgs[id].threadId = threadId /\ SatisfiesCreatedAt(id, createdAtFilter(before))}

getThreadMessagesResult(threadId, before, limitQuery) ==
  Page(threadMatching(threadId, before), limitQuery)

getThreadMessages(user, threadId, before, limitQuery) ==
  LET r == getThreadMessagesResult(threadId, before, limitQuery) IN
  /\ resp' = [Respond("getThreadMessages", user, 200) EXCEPT
                !.mid = threadId, !.before = before,
                !.messages = r.messages, !.hasMore = r.hasMore]
  /\ UNCHANGED <<msgs, clock, tieAsc, sockets, io, pushes, reqs, chain>>

\* ------------------------------------------------------------- listing
\* an end date is moved to the end of its day: e.setHours(23, 59, 59, 999)
endOfDay(t) == ((t - 1) \div DayLen) * DayLen + DayLen

\* range.$gte from start, range.$lte from end; 0 is an absent bound
rangeFilter(start, end) ==
  [lt |-> 0, gte |-> start, lte |-> IF end # 0 THEN endOfDay(end) ELSE 0,
   isRange |-> start # 0 \/ end # 0]

\* { ...createdAtFilter, ...rangeFilter }: both carry the key createdAt and the
\* later spread replaces the earlier one
spreadCreatedAt(cursorFilter, range) ==
  IF range.isRange THEN range ELSE cursorFilter

LowerCase(c) == IF c = "H" THEN "h" ELSE IF c = "I" THEN "i" ELSE c

\* content: { $regex: new RegExp(escaped q, 'i') }
MatchesText(content, q) ==
  \E k \in 0..(Len(content) - Len(q)) :
    \A j \in 1..Len(q) : LowerCase(content[k + j]) = LowerCase(q[j])

\* q && String(q).trim().length > 0
HasQuery(q) == \E j \in 1..Len(q) : q[j] # " "

IsBetween(id, a, b) ==
  \/ msgs[id].sender = a /\ msgs[id].recipient = b
  \/ msgs[id].sender = b /\ msgs[id].recipient = a

messagesMatching(currentUserId, otherUserId, before, q, start, end) ==
  LET createdAt == spreadCreatedAt(createdAtFilter(before), rangeFilter(start, end))
  IN {id \in Ids :
        /\ IsBetween(id, currentUserId, otherUserId)
        /\ SatisfiesCreatedAt(id, createdAt)
        /\ HasQuery(q) => MatchesText(msgs[id].content, q)}

getMessagesResult(currentUserId, otherUserId, before, limitQuery, q, start, end) ==
  Page(messagesMatching(currentUserId, otherUserId, before, q, start, end), limitQuery)

\* orderedAsc.filter(msg => msg.recipient.toString() === currentUserId.toString()
\* && !msg.isRead), on messages whose recipient has been populated
unreadMessages(orderedAsc, currentUserId) ==
  {id \in Range(orderedAsc) :
     /\ populatedToString(msgs[id].recipient) = idToString(currentUserId)
     /\ ~msgs[id].isRead}

\* the handler without the frame of the paging client
getMessagesCall(currentUserId, otherUserId, before, limitQuery, q, start, end) ==
  LET r == getMessagesResult(currentUserId, otherUserId, before, limitQuery, q, start, end)
      unread == unreadMessages(r.messages, currentUserId)
  IN /\ msgs' = [id \in Ids |->
                   IF id \in unread THEN [msgs[id] EXCEPT !.isRead = TRUE] ELSE msgs[id]]
     /\ resp' = [Respond("getMessages", currentUserId, 200) EXCEPT
                   !.other = otherUserId, !.before = before, !.limit = limitQuery,
                   !.messages = r.messages, !.hasMore = r.hasMore]
     /\ UNCHANGED <<clock, tieAsc, sockets, io, pushes, reqs>>

getMessages(currentUserId, otherUserId, before, limitQuery, q, start, end) ==
  /\ getMessagesCall(currentUserId, otherUserId, before, limitQuery, q, start, end)
  /\ UNCHANGED chain

\* Message.countDocuments({ recipient: userId, isRead: false })
unreadCount(userId) ==
  Cardinality({id \in Ids : msgs[id].recipient = userId /\ ~msgs[id].isRead})

getUnreadCount(userId) ==
  /\ resp' = [Respond("getUnreadCount", userId, 200) EXCEPT !.count = unreadCount(userId)]
  /\ UNCHANGED <<msgs, clock, tieAsc, sockets, io, pushes, reqs, chain>>

\* an update whose filter leaves out isRead: false
markAsRead_anyState(userId, messageId) ==
  /\ IF Exists(messageId) /\ msgs[messageId].recipient = userId
     THEN /\ msgs' = [msgs EXCEPT ![messageId].isRead = TRUE, ![messageId].readAt = clock]
          /\ resp' = [Respond("markAsRead", userId, 200) EXCEPT !.mid = messageId]
     ELSE /\ msgs' = msgs
          /\ resp' = [Respond("markAsRead", userId, 404) EXCEPT !.mid = messageId]
  /\ UNCHANGED <<clock, tieAsc, sockets, io, pushes, reqs, chain>>

\* an update that sets the flag and leaves out the date
markAsRead_noReadAt(userId, messageId) ==
  /\ IF Exists(messageId) /\ msgs[messageId].recipient = userId /\ ~msgs[messageId].isRead
     THEN /\ msgs' = [msgs EXCEPT ![messageId].isRead = TRUE]
          /\ resp' = [Respond("markAsRead", userId, 200) EXCEPT !.mid = messageId]
     ELSE /\ msgs' = msgs
          /\ resp' = [Respond("markAsRead", userId, 404) EXCEPT !.mid = messageId]
  /\ UNCHANGED <<clock, tieAsc, sockets, io, pushes, reqs, chain>>

\* Message.findOneAndUpdate({ _id, recipient: userId, isRead: false },
\*                          { isRead: true, readAt: new Date() })
markAsRead(userId, messageId) ==
  /\ IF Exists(messageId) /\ msgs[messageId].recipient = userId /\ ~msgs[messageId].isRead
     THEN /\ msgs' = [msgs EXCEPT ![messageId].isRead = TRUE, ![messageId].readAt = clock]
          /\ resp' = [Respond("markAsRead", userId, 200) EXCEPT !.mid = messageId]
     ELSE /\ msgs' = msgs
          /\ resp' = [Respond("markAsRead", userId, 404) EXCEPT !.mid = messageId]
  /\ UNCHANGED <<clock, tieAsc, sockets, io, pushes, reqs, chain>>

\* -------------------------------------------------------- conversations
\* a grouping key that is the sender even for the messages the user sent
counterpart_alwaysSender(id, userId) == msgs[id].sender

counterpart(id, userId) ==
  IF msgs[id].sender = userId THEN msgs[id].recipient ELSE msgs[id].sender

\* $group over the messages sorted newest first: one group per counterpart, its
\* lastMessage the first message of the group, its unreadCount the number of
\* unread messages received by the user
RECURSIVE groupByCounterpart(_, _, _)
groupByCounterpart(sorted, userId, seen) ==
  IF sorted = << >> THEN << >>
  ELSE LET id == Head(sorted)
           cp == counterpart(id, userId)
       IN IF cp \in seen THEN groupByCounterpart(Tail(sorted), userId, seen)
          ELSE <<[_id |-> cp, lastMessage |-> id,
                  unreadCount |-> Cardinality({m \in Range(sorted) :
                     /\ counterpart(m, userId) = cp
                     /\ msgs[m].recipient = userId
                     /\ ~msgs[m].isRead})]>>
               \o groupByCounterpart(Tail(sorted), userId, seen \cup {cp})

\* $match, $sort, $group, $lookup and $unwind of the counterpart, $sort by
\* lastMessage.createdAt descending
conversationsAggregate(userId) ==
  LET matched == {id \in Ids : msgs[id].sender = userId \/ msgs[id].recipient = userId}
      groups == groupByCounterpart(SortDesc(matched), userId, {})
  IN FilterSeq(groups, {g \in Range(groups) : g._id \in Users})

\* arr.slice(a, b) for 0 <= a <= b
slice(arr, a, b) == SubSeq(arr, a + 1, Min(b, Len(arr)))

CeilDiv(a, b) == (a + b - 1) \div b

\* a skip that counts the requested page as already shown
skipOf_offByOne(page, limit) == page * limit

skipOf(page, limit) == (page - 1) * limit

getConversationsResult(userId, pageQuery, limitQuery) ==
  LET page == IF pageQuery = 0 THEN 1 ELSE pageQuery
      limit == IF limitQuery = 0 THEN DefaultPageSize ELSE limitQuery
      skip == skipOf(page, limit)
      all == conversationsAggregate(userId)
      totalConversations == Len(all)
      totalPages == CeilDiv(totalConversations, limit)
  IN [conversations |-> slice(all, skip, skip + limit),
      totalConversations |-> totalConversations,
      hasMore |-> page < totalPages]

getConversations(userId, pageQuery, limitQuery) ==
  LET r == getConversationsResult(userId, pageQuery, limitQuery) IN
  /\ resp' = [Respond("getConversations", userId, 200) EXCEPT
                !.page = pageQuery, !.limit = limitQuery,
                !.conversations = r.conversations, !.total = r.totalConversations,
                !.hasMore = r.hasMore]
  /\ UNCHANGED <<msgs, clock, tieAsc, sockets, io, pushes, reqs, chain>>

\* ------------------------------------------------------------ reactions
\* msg.reactions.findIndex(r => r.user === userId): 0 when there is none
findIndex(reactions, user) ==
  IF \E i \in 1..Len(reactions) : reactions[i].user = user
  THEN CHOOSE i \in 1..Len(reactions) :
         /\ reactions[i].user = user
         /\ \A j \in 1..(i - 1) : reactions[j].user # user
  ELSE 0

RemoveAt(seq, i) == SubSeq(seq, 1, i - 1) \o SubSeq(seq, i + 1, Len(seq))

\* a toggle that never removes: an existing reaction is always overwritten
toggleChange_noToggleOff(reactions, user, emoji, now) ==
  LET existingIdx == findIndex(reactions, user)
      entry == [user |-> user, emoji |-> emoji, createdAt |-> now]
  IN IF existingIdx # 0
     THEN [kind |-> "setElem", idx |-> existingIdx, entry |-> entry,
           reactions |-> [reactions EXCEPT ![existingIdx] = entry]]
     ELSE [kind |-> "push", idx |-> 0, entry |-> entry,
           reactions |-> Append(reactions, entry)]

\* the change addReaction makes to the loaded reactions and how save() sends it:
\* splice is a $set of the array, an element's field a positional $set, push a $push
toggleChange(reactions, user, emoji, now) ==
  LET existingIdx == findIndex(reactions, user)
      entry == [user |-> user, emoji |-> emoji, createdAt |-> now]
  IN IF existingIdx # 0
     THEN IF reactions[existingIdx].emoji = emoji
          THEN [kind |-> "setArray", idx |-> 0, entry |-> entry,
                reactions |-> RemoveAt(reactions, existingIdx)]
          ELSE [kind |-> "setElem", idx |-> existingIdx, entry |-> entry,
                reactions |-> [reactions EXCEPT ![existingIdx] = entry]]
     ELSE [kind |-> "push", idx |-> 0, entry |-> entry,
           reactions |-> Append(reactions, entry)]

\* a filter that drops the user's entries whatever emoji was given
removeChange_anyEmoji(reactions, user, emoji) ==
  LET kept == {r \in Range(reactions) : r.user # user}
  IN [kind |-> "setArray", idx |-> 0,
      entry |-> [user |-> user, emoji |-> emoji, createdAt |-> 0],
      reactions |-> FilterSeq(reactions, kept)]

\* msg.reactions = msg.reactions.filter(...): emoji given removes the exact
\* (user, emoji) entries, emoji absent removes every entry of the user
removeChange(reactions, user, emoji) ==
  LET kept == {r \in Range(reactions) :
                 IF emoji # NoEmoji THEN ~(r.user = user /\ r.emoji = emoji)
                 ELSE r.user # user}
  IN [kind |-> "setArray", idx |-> 0,
      entry |-> [user |-> user, emoji |-> emoji, createdAt |-> 0],
      reactions |-> FilterSeq(reactions, kept)]

\* whether the update finds the document: a $set of the array or of an element
\* carries the version the document was loaded with, a $push does not
saveMatches(stored, change, loadedV) ==
  change.kind = "push" \/ stored.v = loadedV

\* the stored message after the update; $push and array $set increment the version
saveApply(stored, change) ==
  IF change.kind = "push"
  THEN [stored EXCEPT !.reactions = Append(stored.reactions, change.entry), !.v = @ + 1]
  ELSE IF change.kind = "setArray"
  THEN [stored EXCEPT !.reactions = change.reactions, !.v = @ + 1]
  ELSE [stored EXCEPT !.reactions[change.idx].emoji = change.entry.emoji,
                      !.reactions[change.idx].createdAt = change.entry.createdAt]

\* addReaction up to its save: validation, Message.findById, the change in memory
addReaction(user, messageId, emoji) ==
  /\ IF emoji = NoEmoji
     THEN /\ resp' = Respond("addReaction", user, 400)
          /\ reqs' = reqs
     ELSE IF ~Exists(messageId)
     THEN /\ resp' = [Respond("addReaction", user, 404) EXCEPT !.mid = messageId]
          /\ reqs' = reqs
     ELSE /\ HasFree
          /\ reqs' = [reqs EXCEPT ![FreeSlot] =
               [op |-> "addReaction", pc |-> "save", user |-> user, mid |-> messageId,
                v |-> msgs[messageId].v,
                change |-> toggleChange(msgs[messageId].reactions, user, emoji, clock)]]
          /\ resp' = resp
  /\ UNCHANGED <<msgs, clock, tieAsc, sockets, io, pushes, chain>>

\* removeReaction up to its save
removeReaction(user, messageId, emoji) ==
  /\ IF ~Exists(messageId)
     THEN /\ resp' = [Respond("removeReaction", user, 404) EXCEPT !.mid = messageId]
          /\ reqs' = reqs
     ELSE LET change == removeChange(msgs[messageId].reactions, user, emoji) IN
          IF Len(change.reactions) = Len(msgs[messageId].reactions)
          THEN /\ resp' = [Respond("removeReaction", user, 404) EXCEPT !.mid = messageId]
               /\ reqs' = reqs
          ELSE /\ HasFree
               /\ reqs' = [reqs EXCEPT ![FreeSlot] =
                    [op |-> "removeReaction", pc |-> "save", user |-> user,
                     mid |-> messageId, v |-> msgs[messageId].v, change |-> change]]
               /\ resp' = resp
  /\ UNCHANGED <<msgs, clock, tieAsc, sockets, io, pushes, chain>>

\* the two messageReaction emits: addReaction populates sender and recipient
\* before it names the rooms, removeReaction does not
reactionEvents(op, mid) ==
  IF op = "addReaction"
  THEN <<emit("messageReaction", populatedToString(msgs[mid].recipient), mid, msgs[mid].threadId),
         emit("messageReaction", populatedToString(msgs[mid].sender), mid, msgs[mid].threadId)>>
  ELSE <<emit("messageReaction", idToString(msgs[mid].recipient), mid, msgs[mid].threadId),
         emit("messageReaction", idToString(msgs[mid].sender), mid, msgs[mid].threadId)>>

\* await msg.save() of addReaction and removeReaction, the emits, then the
\* response; a version mismatch raises VersionError, answered 500, and so does
\* an emit that raises
SaveReaction(s) ==
  /\ ~IsFree(s)
  /\ reqs[s].pc = "save"
  /\ reqs[s].op \in {"addReaction", "removeReaction"}
  /\ LET r == reqs[s] IN
     IF saveMatches(msgs[r.mid], r.change, r.v)
     THEN /\ msgs[r.mid].v < MaxVersion
          /\ msgs' = [msgs EXCEPT ![r.mid] = saveApply(@, r.change)]
          /\ resp' = IF io = "up"
                     THEN [Respond(r.op, r.user, 200) EXCEPT
                             !.mid = r.mid, !.events = reactionEvents(r.op, r.mid)]
                     ELSE [Respond(r.op, r.user, 500) EXCEPT !.mid = r.mid]
     ELSE /\ msgs' = msgs
          /\ resp' = [Respond(r.op, r.user, 500) EXCEPT !.mid = r.mid]
  /\ reqs' = [reqs EXCEPT ![s] = Idle]
  /\ UNCHANGED <<clock, tieAsc, sockets, io, pushes, chain>>

\* ----------------------------------------------------------------- edit
\* String.prototype.trim()
RECURSIVE TrimLeft(_)
TrimLeft(str) ==
  IF str # << >> /\ Head(str) = " " THEN TrimLeft(Tail(str)) ELSE str

Trim(str) == Reverse(TrimLeft(Reverse(TrimLeft(str))))

\* editMessage up to its save: validation, Message.findOne({ _id, sender }),
\* the new content, flag and date set on the loaded document
editMessage(user, messageId, content) ==
  /\ IF content = NoText \/ Trim(content) = NoText
     THEN /\ resp' = Respond("editMessage", user, 400)
          /\ reqs' = reqs
     ELSE IF ~(Exists(messageId) /\ msgs[messageId].sender = user)
     THEN /\ resp' = [Respond("editMessage", user, 404) EXCEPT !.mid = messageId]
          /\ reqs' = reqs
     ELSE /\ HasFree
          /\ reqs' = [reqs EXCEPT ![FreeSlot] =
               [op |-> "editMessage", pc |-> "save", user |-> user, mid |-> messageId,
                doc |-> [msgs[messageId] EXCEPT !.content = Trim(content),
                                                !.edited = TRUE, !.editedAt = clock]]]
          /\ resp' = resp
  /\ UNCHANGED <<msgs, clock, tieAsc, sockets, io, pushes, chain>>

\* a save that writes the loaded document back whole
editApply_wholeDocument(stored, doc) == doc

\* save() of the edited document: $set of the three modified paths
editApply(stored, doc) ==
  [stored EXCEPT !.content = doc.content, !.edited = doc.edited, !.editedAt = doc.editedAt]

\* await msg.save() of editMessage, populate of sender and recipient, the two
\* messageEdited emits, then the response
SaveEdit(s) ==
  /\ ~IsFree(s)
  /\ reqs[s].pc = "save"
  /\ reqs[s].op = "editMessage"
  /\ LET r == reqs[s] IN
     /\ msgs' = [msgs EXCEPT ![r.mid] = editApply(@, r.doc)]
     /\ resp' = IF io = "up"
                THEN [Respond(r.op, r.user, 200) EXCEPT
                        !.mid = r.mid,
                        !.events = <<emit("messageEdited", populatedToString(r.doc.recipient),
                                          r.mid, r.doc.threadId),
                                     emit("messageEdited", populatedToString(r.doc.sender),
                                          r.mid, r.doc.threadId)>>]
                ELSE [Respond(r.op, r.user, 500) EXCEPT !.mid = r.mid]
  /\ reqs' = [reqs EXCEPT ![s] = Idle]
  /\ UNCHANGED <<clock, tieAsc, sockets, io, pushes, chain>>

\* time passes between requests; requests within one instant share a timestamp
Tick ==
  /\ clock < MaxTime
  /\ clock' = clock + 1
  /\ UNCHANGED <<msgs, tieAsc, sockets, io, pushes, reqs, resp, chain>>

NoChain ==
  [active |-> FALSE, user |-> NoUser, other |-> NoUser, limit |-> 0, cursor |-> 0,
   acc |-> << >>, n0 |-> 0, done |-> FALSE]

Init ==
  /\ msgs = << >>
  /\ clock = 1
  /\ tieAsc \in BOOLEAN
  /\ reqs = [s \in Slots |-> Idle]
  /\ resp = NoResp
  /\ chain = NoChain
  /\ sockets = [k \in Sockets |-> {}]
  /\ io = "up"
  /\ pushes = {}

\* requests a client can make that pass validation, and those that do not
Replies == {NoId, GhostId} \cup Ids

\* the senders and recipients of the thread scenario
ThreadPairs == {<<"u1", "u2">>, <<"u2", "u1">>}

SendStep ==
  /\ Len(msgs) < MaxThread
  /\ \E p \in ThreadPairs, rep \in Replies :
       sendMessage(p[1], p[2], <<"h", "i">>, "text", rep)

SendRejected ==
  \E b \in {<<NoUser, <<"H">> >>, <<GhostUser, <<"H">> >>, <<"u1", NoText>>} :
    sendMessage("u1", b[1], b[2], "text", NoId)

VoiceStep ==
  /\ Len(msgs) < MaxThread
  /\ \E rep \in Replies : uploadVoiceNote("u3", "u1", TRUE, rep, TRUE)

VoiceRejected ==
  \E b \in {<<NoUser, TRUE, TRUE>>, <<"u1", FALSE, TRUE>>,
            <<GhostUser, TRUE, TRUE>>, <<"u1", TRUE, FALSE>>} :
    uploadVoiceNote("u2", b[1], b[2], NoId, b[3])

PatchStep == \E s \in Slots : PatchThread(s)

ThreadStep ==
  \E t \in Ids \cup {GhostId}, bl \in {<<0, 0>>, <<MaxTime, 1>>} :
    getThreadMessages("u1", t, bl[1], bl[2])

NextSend ==
  SendStep \/ SendRejected \/ VoiceStep \/ VoiceRejected \/ PatchStep \/ ThreadStep \/ Tick

SpecSend == Init /\ [][NextSend]_vars

\* the reaction scenario: one message between u1 and u2, reactions by both
ReactSend ==
  /\ Len(msgs) = 0
  /\ sendMessage("u1", "u2", <<"h", "i">>, "text", NoId)

ReactStep ==
  \E u \in {"u1", "u2"}, m \in Ids, e \in Emojis : addReaction(u, m, e)

ReactRejected ==
  \E b \in {<<GhostId, "up">>, <<1, NoEmoji>>} : addReaction("u1", b[1], b[2])

RemoveStep ==
  \E u \in {"u1", "u2"}, m \in Ids \cup {GhostId}, e \in {NoEmoji, "up"} :
    removeReaction(u, m, e)

SaveReactionStep == \E s \in Slots : SaveReaction(s)

NextReact ==
  ReactSend \/ PatchStep \/ ReactStep \/ ReactRejected \/ RemoveStep \/ SaveReactionStep

SpecReact == Init /\ [][NextReact]_vars

\* in the listing scenarios a send starts when no other request is in flight
NoneInFlight == \A s \in Slots : IsFree(s)

\* the conversation scenario: u1 exchanges messages with u2, u3 and itself
ConvPairs == {<<"u1", "u2">>, <<"u3", "u1">>, <<"u1", "u1">>, <<"u2", "u3">>}

ConvSend ==
  /\ Len(msgs) < MaxMsgs
  /\ NoneInFlight
  /\ \E p \in ConvPairs : sendMessage(p[1], p[2], <<"H">>, "text", NoId)

ConvRead == \E m \in Ids : markAsRead("u1", m)

ConvStep ==
  \E u \in {"u1", "u2"}, pg \in {0, 1, 2}, l \in {0, 1, 2} : getConversations(u, pg, l)

NextConv == ConvSend \/ PatchStep \/ ConvRead \/ ConvStep \/ Tick

SpecConv == Init /\ [][NextConv]_vars

\* the read scenario: u1 and u2 write to each other, both read
ReadPairs == {<<"u1", "u2">>, <<"u2", "u1">>}

ReadSend ==
  /\ Len(msgs) < MaxMsgs
  /\ NoneInFlight
  /\ \E p \in ReadPairs : sendMessage(p[1], p[2], <<"H">>, "text", NoId)

ReadOne == \E u \in {"u1", "u2"}, m \in Ids \cup {GhostId} : markAsRead(u, m)

ReadList == \E u \in {"u1", "u2"}, l \in {0, 1} : getMessages(u, "u1", 0, l, NoText, 0, 0)

ReadCount == getUnreadCount("u2")

ReadConv == getConversations("u2", 0, 0)

NextRead == ReadSend \/ PatchStep \/ ReadOne \/ ReadList \/ ReadCount \/ ReadConv \/ Tick

SpecRead == Init /\ [][NextRead]_vars

\* the paging scenario: a history between u1 and u2, read page by page by a
\* client that passes the createdAt of the oldest message it holds as cursor
PageSend ==
  /\ Len(msgs) < MaxMsgs
  /\ NoneInFlight
  /\ \E p \in ReadPairs, c \in Contents : sendMessage(p[1], p[2], c, "text", NoId)

PageList ==
  \E a \in {<<0, 0, NoText, 0, 0>>, <<2, 1, NoText, 0, 0>>, <<2, 0, <<"h">>, 0, 0>>,
            <<1, 0, NoText, 1, 0>>, <<0, 1, <<" ">>, 0, 1>>, <<1, 2, <<"I">>, 1, 1>>} :
    getMessages("u1", "u2", a[1], a[2], a[3], a[4], a[5])

ChainStart ==
  /\ ~chain.active
  /\ \E l \in 1..2 :
       LET r == getMessagesResult("u1", "u2", 0, l, NoText, 0, 0) IN
       /\ getMessagesCall("u1", "u2", 0, l, NoText, 0, 0)
       /\ chain' = [active |-> TRUE, user |-> "u1", other |-> "u2", limit |-> l,
                    cursor |-> IF r.messages = << >> THEN 0
                               ELSE msgs[r.messages[1]].createdAt,
                    acc |-> r.messages, n0 |-> Len(msgs), done |-> ~r.hasMore]

ChainNext ==
  /\ chain.active
  /\ ~chain.done
  /\ LET r == getMessagesResult(chain.user, chain.other, chain.cursor, chain.limit, NoText, 0, 0) IN
     /\ getMessagesCall(chain.user, chain.other, chain.cursor, chain.limit, NoText, 0, 0)
     /\ chain' = [chain EXCEPT
                    !.cursor = IF r.messages = << >> THEN @ ELSE msgs[r.messages[1]].createdAt,
                    !.acc = r.messages \o @,
                    !.done = ~r.hasMore]

NextPage == PageSend \/ PatchStep \/ PageList \/ ChainStart \/ ChainNext \/ Tick

SpecPage == Init /\ [][NextPage]_vars

\* the delivery scenario: u1 and u2 connect and disconnect sockets, u1 writes to
\* u2 and u2 answers with voice notes, the realtime layer fails and recovers,
\* pushes settle in the background
EmitJoin == \E k \in Sockets, u \in {"u1", "u2"} : join(k, u)

EmitLeave == \E k \in Sockets : disconnect(k)

EmitSend ==
  /\ Len(msgs) < MaxMsgs
  /\ \E rep \in {NoId} \cup Ids : sendMessage("u1", "u2", <<"H">>, "text", rep)

EmitVoice ==
  /\ Len(msgs) < MaxMsgs
  /\ uploadVoiceNote("u2", "u1", TRUE, NoId, TRUE)

EmitRejected ==
  \E b \in {<<NoUser, <<"H">>, "text">>, <<GhostUser, <<"H">>, "text">>,
            <<"u2", NoText, "text">>, <<"u2", NoText, "image">>} :
    sendMessage("u1", b[1], b[2], b[3], NoId)

PushStep == \E t \in pushes, o \in PushOutcomes : sendPushToUser(t, o)

NextEmit ==
  \/ EmitJoin \/ EmitLeave \/ ioFault \/ EmitSend \/ EmitVoice \/ EmitRejected
  \/ VoiceRejected \/ PatchStep \/ PushStep

SpecEmit == Init /\ [][NextEmit]_vars

\* the edit scenario: one message from u1 to u2, edited by either of them while
\* u2 reacts to it and reads it
EditContents == {<<" ">>, <<" ", "h">>}

EditStep ==
  \E u \in {"u1", "u2"}, m \in Ids \cup {GhostId}, c \in EditContents \cup {NoText} :
    editMessage(u, m, c)

SaveEditStep == \E s \in Slots : SaveEdit(s)

EditReact == \E m \in Ids : addReaction("u2", m, "up")

EditUnreact == \E m \in Ids : removeReaction("u2", m, NoEmoji)

EditRead == \E m \in Ids : markAsRead("u2", m)

NextEdit ==
  \/ ReactSend \/ PatchStep \/ EditStep \/ SaveEditStep
  \/ EditReact \/ EditUnreact \/ SaveReactionStep \/ EditRead \/ Tick

SpecEdit == Init /\ [][NextEdit]_vars

\* the channel scenario: sockets of u1, u2 and u3, one message from u1 to u2,
\* then edits and reactions one request at a time
ChanJoin == \E k \in Sockets, u \in Users : join(k, u)

ChanEdit ==
  /\ NoneInFlight
  /\ \E m \in Ids : editMessage("u1", m, <<"h", "i">>)

ChanReact ==
  /\ NoneInFlight
  /\ \E m \in Ids, e \in Emojis : addReaction("u2", m, e)

ChanUnreact ==
  /\ NoneInFlight
  /\ \E m \in Ids : removeReaction("u2", m, NoEmoji)

NextChan ==
  \/ ReactSend \/ PatchStep \/ ChanJoin \/ ChanEdit \/ SaveEditStep
  \/ ChanReact \/ ChanUnreact \/ SaveReactionStep

SpecChan == Init /\ [][NextChan]_vars

\* the typing scenario: sockets of u1, u2 and u3 come and go, one message from
\* u1 to u2, typing events between any two users
TypeStep == \E s \in Users, r \in Users \cup {NoUser} : typing(s, r)

NextType == ChanJoin \/ EmitLeave \/ ReactSend \/ PatchStep \/ TypeStep

SpecType == Init /\ [][NextType]_vars

\* the outsider scenario: u1 and u2 write to each other, u3 reads their thread
\* and their conversation and reacts to their messages
PeekSend ==
  /\ Len(msgs) < MaxMsgs
  /\ NoneInFlight
  /\ \E p \in ReadPairs, rep \in {NoId} \cup Ids : sendMessage(p[1], p[2], <<"H">>, "text", rep)

PeekThread == \E t \in Ids : getThreadMessages("u3", t, 0, 0)

PeekList == \E o \in {"u1", "u2"} : getMessages("u3", o, 0, 0, NoText, 0, 0)

PeekReact ==
  /\ NoneInFlight
  /\ \E m \in Ids : addReaction("u3", m, "up")

PeekUnreact ==
  /\ NoneInFlight
  /\ \E m \in Ids : removeReaction("u3", m, NoEmoji)

NextPeek ==
  \/ PeekSend \/ PatchStep \/ PeekThread \/ PeekList \/ PeekReact \/ PeekUnreact
  \/ SaveReactionStep

SpecPeek == Init /\ [][NextPeek]_vars

\* ------------------------------------------------------------- threads
IsSendOp(op) == op \in {"sendMessage", "uploadVoiceNote"}

IsRoot(id) == msgs[id].replyTo = NoId

RECURSIVE InThreadOf(_, _)
InThreadOf(m, root) ==
  \/ m = root
  \/ /\ msgs[m].replyTo \in 1..(m - 1)
     /\ InThreadOf(msgs[m].replyTo, root)

ThreadOf(root) == {m \in Ids : InThreadOf(m, root)}

Ascending(seq) ==
  \A i \in 1..Len(seq), j \in 1..Len(seq) :
    i < j => msgs[seq[i]].createdAt <= msgs[seq[j]].createdAt

\* C1: after a send (text or voice note) that returned success, the stored
\* message's threadId is not null: it is the parent's threadId if set, else the
\* parent's id, when the replyTo parent exists, and the message's own id in
\* every other case, a replyTo that names no message included.
C1_ThreadIdSetAfterSend ==
  (IsSendOp(resp.op) /\ resp.status = 201) =>
    LET m == msgs[resp.mid] IN
    /\ m.threadId # NoId
    /\ m.threadId =
         IF Exists(m.replyTo)
         THEN (IF msgs[m.replyTo].threadId # NoId
               THEN msgs[m.replyTo].threadId ELSE m.replyTo)
         ELSE resp.mid

\* C9: every reply into the thread of a root message R (a reply to R or to a
\* message already in R's thread) has threadId R, and once R's send has
\* completed, fetching thread R without a cursor and with a limit of at least
\* the thread size returns exactly R and those replies, oldest first.
C9_ThreadFetch ==
  \A root \in Ids :
    IsRoot(root) =>
      /\ \A m \in ThreadOf(root) \ {root} : msgs[m].threadId = root
      /\ msgs[root].threadId = root =>
           \A l \in {0, 1, 2, 3, MaxThread, MaxLimit + 1} :
             clampLimit(l) >= Cardinality(ThreadOf(root)) =>
               LET r == getThreadMessagesResult(root, 0, l) IN
               /\ Range(r.messages) = ThreadOf(root)
               /\ Len(r.messages) = Cardinality(ThreadOf(root))
               /\ Ascending(r.messages)
               /\ ~r.hasMore

\* a thread of three (a root, a reply and a reply to the reply) has been fetched
C9_Witness ==
  /\ resp.op = "getThreadMessages"
  /\ resp.before = 0
  /\ Exists(resp.mid)
  /\ IsRoot(resp.mid)
  /\ Len(resp.messages) = 3
  /\ \E m \in Range(resp.messages) : msgs[m].replyTo \notin {NoId, resp.mid}

\* ----------------------------------------------------------- reactions
\* the user-to-emoji relation a reaction list records
Mapping(reactions) == {<<r.user, r.emoji>> : r \in Range(reactions)}

ReactionsOf(reactions, user) == {i \in 1..Len(reactions) : reactions[i].user = user}

\* one toggleReaction request run from load to save with nothing in between
toggled(m, user, emoji) ==
  saveApply(m, toggleChange(m.reactions, user, emoji, clock))

\* C2: every message's reaction list holds at most one entry per user, under
\* every interleaving of the loads and saves of concurrent toggleReaction and
\* removeReaction requests.
C2_OneReactionPerUser ==
  \A id \in Ids : \A u \in Users : Cardinality(ReactionsOf(msgs[id].reactions, u)) <= 1

\* C3 as claimed: two consecutive toggles of the same emoji by the same user,
\* nothing in between, leave the message's user-to-emoji mapping as it was; a
\* user without a reaction before has none afterwards.
C3_ToggleTwice ==
  \A id \in Ids, u \in Users, e \in Emojis :
    LET before == msgs[id].reactions
        after == toggled(toggled(msgs[id], u, e), u, e).reactions
    IN /\ Mapping(after) = Mapping(before)
       /\ ReactionsOf(before, u) = {} => ReactionsOf(after, u) = {}

OthersOf(reactions, user) ==
  FilterSeq(reactions, {r \in Range(reactions) : r.user # user})

\* C3 amended: two consecutive toggles of the same emoji e by the same user,
\* nothing in between, leave the other users' reactions as they were; they
\* leave the reaction list unchanged when the user had no reaction, the mapping
\* unchanged when the user's one reaction bore e, and the user without a
\* reaction when the user's one reaction bore another emoji.
C3_ToggleTwiceAmended ==
  \A id \in Ids, u \in Users, e \in Emojis :
    LET before == msgs[id].reactions
        after == toggled(toggled(msgs[id], u, e), u, e).reactions
        mine == ReactionsOf(before, u)
    IN /\ OthersOf(after, u) = OthersOf(before, u)
       /\ mine = {} => after = before
       /\ (Cardinality(mine) = 1 /\ \A i \in mine : before[i].emoji = e) =>
            Mapping(after) = Mapping(before)
       /\ (Cardinality(mine) = 1 /\ \A i \in mine : before[i].emoji # e) =>
            ReactionsOf(after, u) = {}

\* a reaction was toggled on and then off by requests that ran one after the other
C3_Witness ==
  /\ resp.op = "addReaction"
  /\ resp.status = 200
  /\ Exists(resp.mid)
  /\ msgs[resp.mid].reactions = << >>
  /\ msgs[resp.mid].v = 2
  /\ \A s \in Slots : IsFree(s)

\* C4: a toggle of e1 and then of a different e2 by the same user, nothing in
\* between, leaves exactly one reaction by that user, with emoji e2, and the
\* other users' reactions as they were.
C4_ToggleReplace ==
  \A id \in Ids, u \in Users, e1 \in Emojis, e2 \in Emojis :
    e1 # e2 =>
      LET before == msgs[id].reactions
          after == toggled(toggled(msgs[id], u, e1), u, e2).reactions
      IN /\ Cardinality(ReactionsOf(after, u)) = 1
         /\ \A i \in ReactionsOf(after, u) : after[i].emoji = e2
         /\ OthersOf(after, u) = OthersOf(before, u)

\* -------------------------------------------------------------- listing
Cursors == 1..(MaxTime + 1)
Dates == 0..MaxTime
LimitQueries == {0, 1, 2, 3}

\* C5: a listMessages call with a beforeCursor returns no message whose
\* createdAt is at or after the cursor, whatever the text query, the date
\* range and the limit.
C5_CursorExclusive ==
  \A u \in Users, o \in Users, b \in Cursors, l \in LimitQueries, q \in Queries,
     st \in Dates, en \in Dates :
    \A id \in Range(getMessagesResult(u, o, b, l, q, st, en).messages) :
      msgs[id].createdAt < b

PairIds(a, b) == {id \in Ids : IsBetween(id, a, b)}

\* C6: with no send in between, the pages fetched first without a cursor and
\* then with the createdAt of the oldest message of the previous page as cursor,
\* until hasMore is false, concatenate (older pages first) to the whole history
\* of the pair in ascending createdAt order, each message once.
C6_PagesReconstructHistory ==
  (chain.active /\ chain.done /\ chain.n0 = Len(msgs)) =>
    /\ Range(chain.acc) = PairIds(chain.user, chain.other)
    /\ Len(chain.acc) = Cardinality(PairIds(chain.user, chain.other))
    /\ Ascending(chain.acc)

\* -------------------------------------------------------- conversations
Counterparts(convs) == {convs[i]._id : i \in 1..Len(convs)}

\* C7: for every user and page size N >= 1, pages 1 and 2 of size N hold
\* disjoint counterparts and page 1 followed by page 2 is, in order, the first
\* 2N items of page 1 of size 2N.
C7_PagesCompose ==
  \A u \in Users, N \in 1..(MaxMsgs + 1) :
    LET p1 == getConversationsResult(u, 1, N).conversations
        p2 == getConversationsResult(u, 2, N).conversations
        big == getConversationsResult(u, 1, 2 * N).conversations
    IN /\ Counterparts(p1) \cap Counterparts(p2) = {}
       /\ p1 \o p2 = Take(big, 2 * N)

\* a second page of conversations that is not empty has been served
C7_Witness ==
  /\ resp.op = "getConversations"
  /\ resp.page = 2
  /\ resp.limit = 1
  /\ Len(resp.conversations) = 1
  /\ resp.total >= 2

\* ----------------------------------------------------------------- read
\* C8: markOneRead succeeds exactly when the message exists, the reader is its
\* recipient and it is unread, and then sets read with a read timestamp; in the
\* three other cases it answers the same not-found failure and changes no
\* message, so a second markOneRead by the same reader fails.
C8_MarkOneRead ==
  [][\A u \in Users, m \in 1..(MaxMsgs + 1) \cup {GhostId} :
       markAsRead(u, m) =>
         IF Exists(m) /\ msgs[m].recipient = u /\ ~msgs[m].isRead
         THEN /\ resp'.status = 200
              /\ msgs'[m].isRead
              /\ msgs'[m].readAt # 0
              /\ \A k \in Ids \ {m} : msgs'[k] = msgs[k]
         ELSE /\ resp' = [Respond("markAsRead", u, 404) EXCEPT !.mid = m]
              /\ msgs' = msgs]_vars

\* the reader's second markOneRead of a message was answered not found
C8_Witness ==
  /\ resp.op = "markAsRead"
  /\ resp.status = 404
  /\ Exists(resp.mid)
  /\ msgs[resp.mid].recipient = resp.user
  /\ msgs[resp.mid].isRead
  /\ msgs[resp.mid].readAt # 0

FromTo(a, b) == {id \in Ids : msgs[id].sender = a /\ msgs[id].recipient = b}

\* C10: after A's messages to B were all in the window of B's listMessages(A,B),
\* they are all stored read, B's unread total counts none of them, and B's
\* listConversations has exactly one entry for A, with unreadCount 0 and the
\* most recent message of the pair as lastMessage.
C10_ReadOnView ==
  LET B == resp.user
      A == resp.other
      convs == conversationsAggregate(B)
      forA == {i \in 1..Len(convs) : convs[i]._id = A}
  IN (/\ resp.op = "getMessages"
      /\ resp.status = 200
      /\ FromTo(A, B) # {}
      /\ FromTo(A, B) \subseteq Range(resp.messages)) =>
       /\ \A id \in FromTo(A, B) : msgs[id].isRead
       /\ {id \in FromTo(A, B) : ~msgs[id].isRead} = {}
       /\ Cardinality(forA) = 1
       /\ \A i \in forA :
            /\ convs[i].unreadCount = 0
            /\ \A id \in PairIds(A, B) :
                 msgs[id].createdAt <= msgs[convs[i].lastMessage].createdAt

\* ------------------------------------------------------------- delivery
\* a step in which a send whose message is stored ends: the second save of a
\* root message, or the only save of a reply
SendEnds ==
  \/ \E s \in Slots : ~IsFree(s) /\ IsSendOp(reqs[s].op) /\ reqs'[s] = Idle
  \/ Len(msgs') > Len(msgs) /\ reqs' = reqs

\* C11: a send whose message has been persisted answers 201, also when the
\* emit to the recipient's or the sender's room raises during the request.
C11_SendSurvivesEmitFailure ==
  [][SendEnds => (IsSendOp(resp'.op) /\ resp'.status = 201)]_vars

\* C12: the answer of a successful send does not depend on its push: it is
\* 201 with the message while the push is still pending, no outcome of the push
\* (sent, failed, skipped) changes the answer or the messages, and a send whose
\* push failed stands answered 201.
C12_PushIndependent ==
  /\ [][(SendEnds /\ resp'.status = 201) =>
          \E t \in pushes' \ pushes : t.mid = resp'.mid /\ t.state = "pending"]_vars
  /\ [][\A t \in pushes, o \in PushOutcomes :
          sendPushToUser(t, o) => (resp' = resp /\ msgs' = msgs)]_vars
  /\ [](\A t \in pushes :
          (IsSendOp(resp.op) /\ resp.mid = t.mid) => resp.status = 201)

\* the push of the send answered last has failed
C12_Witness ==
  /\ IsSendOp(resp.op)
  /\ resp.status = 201
  /\ \E t \in pushes : t.mid = resp.mid /\ t.state = "failed"

\* C13: when a send succeeds while no socket is in the recipient's room, a push
\* to the recipient for that message has been dispatched and the answer is 201.
C13_PushWhenOffline ==
  (/\ IsSendOp(resp.op)
   /\ resp.events # << >>
   /\ resp.events[1].to = {}) =>
    /\ resp.status = 201
    /\ \E t \in pushes : t.mid = resp.mid /\ t.to = msgs[resp.mid].recipient

\* a send was answered while the sender had a socket and the recipient had none
C13_Witness ==
  /\ IsSendOp(resp.op)
  /\ resp.status = 201
  /\ resp.events[1].to = {}
  /\ resp.events[2].to # {}
  /\ msgs[resp.mid].recipient # msgs[resp.mid].sender

\* C18: listMessages(requester, other) sets read every message of the returned
\* window that is unread and received by the requester, and leaves the read
\* flag of every other message as it was: messages outside the window, messages
\* the requester sent, messages of other conversations.
C18_ReadWindowOnly ==
  [][\A u \in Users, o \in Users, l \in LimitQueries :
       getMessages(u, o, 0, l, NoText, 0, 0) =>
         \A id \in Ids :
           IF /\ id \in Range(resp'.messages)
              /\ msgs[id].recipient = u
              /\ ~msgs[id].isRead
           THEN msgs'[id].isRead
           ELSE msgs'[id].isRead = msgs[id].isRead]_vars

\* ------------------------------------------------------ conversation list
\* the users with whom u exchanged a message, in either direction
Partners(u) ==
  {msgs[id].recipient : id \in {m \in Ids : msgs[m].sender = u}}
    \cup {msgs[id].sender : id \in {m \in Ids : msgs[m].recipient = u}}

\* pages p, p+1, ..., last of size 1, one after the other
RECURSIVE PagesFrom(_, _, _)
PagesFrom(u, p, last) ==
  IF p > last THEN << >>
  ELSE getConversationsResult(u, p, 1).conversations \o PagesFrom(u, p + 1, last)

\* C19: over all its pages listConversations(user) has exactly one item per
\* counterpart the user exchanged a message with; the item's lastMessage is a
\* message of the pair with the greatest createdAt, its unreadCount the number
\* of unread messages of the pair received by the user; items are in descending
\* order of lastMessage.createdAt and totalCount is the number of counterparts.
C19_ConversationList ==
  \A u \in Users :
    LET all == PagesFrom(u, 1, Len(msgs) + 1) IN
    /\ Counterparts(all) = Partners(u)
    /\ Len(all) = Cardinality(Partners(u))
    /\ \A i \in 1..Len(all) :
         LET c == all[i] IN
         /\ c.lastMessage \in PairIds(u, c._id)
         /\ \A id \in PairIds(u, c._id) :
              msgs[id].createdAt <= msgs[c.lastMessage].createdAt
         /\ c.unreadCount =
              Cardinality({id \in PairIds(u, c._id) :
                             msgs[id].recipient = u /\ ~msgs[id].isRead})
    /\ \A i \in 1..Len(all), j \in 1..Len(all) :
         i < j => msgs[all[i].lastMessage].createdAt >= msgs[all[j].lastMessage].createdAt
    /\ \A p \in 1..(Len(msgs) + 1) :
         getConversationsResult(u, p, 1).totalConversations = Cardinality(Partners(u))

\* a list of two conversations, one of them with unread messages, was served
C19_Witness ==
  /\ resp.op = "getConversations"
  /\ Len(resp.conversations) = 2
  /\ resp.total = 2
  /\ \E i \in 1..2 : resp.conversations[i].unreadCount >= 1
  /\ \E i \in 1..2 : resp.conversations[i].unreadCount = 0

\* ----------------------------------------------------------------- edit
\* the statuses of the Unauthorized error kind
Unauthorized == {401, 403}

\* C14: an edit with a non-empty body by an actor who is not the sender of an
\* existing message fails with the Unauthorized error kind, leaves the message
\* (body, edited flag, edit timestamp) as it was and emits no event.
C14_EditByStranger ==
  [][\A u \in Users, m \in Ids, c \in EditContents :
       (editMessage(u, m, c) /\ Trim(c) # NoText /\ msgs[m].sender # u) =>
         /\ resp'.op = "editMessage"
         /\ resp'.status \in Unauthorized
         /\ resp'.events = << >>
         /\ msgs' = msgs
         /\ reqs' = reqs]_vars

\* C20: the save of a successful edit changes only the message's body, edited
\* flag and edit timestamp: threadId, replyTo, reactions, read flag, read
\* timestamp, sender, recipient and createdAt of the stored message stay as they
\* are at the save, reactions and read transitions made since the edit loaded
\* the message included, and no other message changes.
C20_EditFrame ==
  [][\A s \in Slots :
       SaveEdit(s) =>
         LET id == reqs[s].mid IN
         /\ msgs'[id].threadId = msgs[id].threadId
         /\ msgs'[id].replyTo = msgs[id].replyTo
         /\ msgs'[id].reactions = msgs[id].reactions
         /\ msgs'[id].isRead = msgs[id].isRead
         /\ msgs'[id].readAt = msgs[id].readAt
         /\ msgs'[id].sender = msgs[id].sender
         /\ msgs'[id].recipient = msgs[id].recipient
         /\ msgs'[id].createdAt = msgs[id].createdAt
         /\ msgs'[id].content = reqs[s].doc.content
         /\ msgs'[id].edited
         /\ msgs'[id].editedAt = reqs[s].doc.editedAt
         /\ \A k \in Ids \ {id} : msgs'[k] = msgs[k]]_vars

\* an edit saved last, after a reaction and a read that came after its load
C20_Witness ==
  /\ resp.op = "editMessage"
  /\ resp.status = 200
  /\ msgs[resp.mid].edited
  /\ msgs[resp.mid].isRead
  /\ msgs[resp.mid].readAt > msgs[resp.mid].editedAt
  /\ msgs[resp.mid].reactions # << >>
  /\ msgs[resp.mid].reactions[1].createdAt > msgs[resp.mid].editedAt

\* ------------------------------------------------------------ send errors
SendKinds == {"text", "image"}

\* C15: a send to a recipient that does not exist fails NotFound (404), a text
\* send with an empty body fails InvalidArgument (400), a non-text send with an
\* empty body to an existing recipient is not rejected, and every failed send
\* stores no message, emits no event and dispatches no push.
C15_SendValidation ==
  [][\A r \in Users \cup {GhostUser}, c \in {NoText, <<"H">>}, k \in SendKinds :
       sendMessage("u1", r, c, k, NoId) =>
         LET noRecipient == r \notin Users
             emptyText == k = "text" /\ c = NoText
         IN /\ (noRecipient /\ ~emptyText) => resp'.status = 404
            /\ (emptyText /\ ~noRecipient) => resp'.status = 400
            /\ (noRecipient \/ emptyText) =>
                 /\ resp'.status \in {400, 404}
                 /\ msgs' = msgs
                 /\ resp'.events = << >>
                 /\ pushes' = pushes
            /\ ~(noRecipient \/ emptyText) => Len(msgs') = Len(msgs) + 1]_vars

\* ------------------------------------------------------------- channels
EventOps == {"sendMessage", "uploadVoiceNote", "editMessage", "addReaction", "removeReaction"}

\* the sockets that received one of the events of a response
Receivers(events) == UNION {events[i].to : i \in 1..Len(events)}

\* the sockets registered for a user: those that joined the room of its id
ChannelsOf(u) == {k \in Sockets : idToString(u) \in sockets[k]}

\* C16: the events of a successful send, edit, toggleReaction or
\* removeReaction reach every socket registered for the message's sender, every
\* socket registered for its recipient and no other socket, however many
\* sockets a user has.
C16_EventsReachParties ==
  [][(resp' # resp /\ resp'.op \in EventOps /\ resp'.status \in {200, 201}) =>
       Receivers(resp'.events) =
         ChannelsOf(msgs'[resp'.mid].sender) \cup ChannelsOf(msgs'[resp'.mid].recipient)]_vars

\* a request is about to set the threadId of message id
PatchPending(id) == \E s \in Slots : ~IsFree(s) /\ reqs[s].pc = "patch" /\ reqs[s].mid = id

\* C17: a successful send (text or voice note) emits newMessage to the
\* recipient's room and then messageSent to the sender's room, when the message
\* is stored with the threadId both events carry, and that threadId never
\* changes afterwards.
C17_RecipientBeforeSender ==
  /\ [][(resp' # resp /\ IsSendOp(resp'.op) /\ resp'.status = 201) =>
          LET id == resp'.mid
              ev == resp'.events
          IN /\ id \in 1..Len(msgs')
             /\ Len(ev) = 2
             /\ ev[1].event = "newMessage"
             /\ ev[1].room = idToString(msgs'[id].recipient)
             /\ ev[2].event = "messageSent"
             /\ ev[2].room = idToString(msgs'[id].sender)
             /\ \A i \in 1..2 : ev[i].mid = id /\ ev[i].threadId = msgs'[id].threadId
             /\ \A s \in Slots : reqs'[s].op # "idle" => reqs'[s].mid # id]_vars
  /\ [][\A id \in Ids : ~PatchPending(id) => msgs'[id].threadId = msgs[id].threadId]_vars
  /\ [](\A i \in 1..Len(resp.events) :
          resp.events[i].event = "messageSent" =>
            \E j \in 1..(i - 1) : resp.events[j].event = "newMessage")

\* a voice note was delivered to a socket of its recipient and to one of its sender
C17_Witness ==
  /\ resp.op = "uploadVoiceNote"
  /\ resp.status = 201
  /\ Len(resp.events) = 2
  /\ resp.events[1].to # {}
  /\ resp.events[2].to # {}
  /\ msgs[resp.mid].threadId = resp.mid

\* ----------------------------------------------------- removeReaction
\* seq without the elements at the positions in D, order kept
RECURSIVE DropAt(_, _, _)
DropAt(seq, D, i) ==
  IF i > Len(seq) THEN << >>
  ELSE (IF i \in D THEN << >> ELSE <<seq[i]>>) \o DropAt(seq, D, i + 1)

\* the entries removeReaction(user, emoji) is to remove: the user's entries with
\* that emoji, or all the user's entries when no emoji is given
Targeted(reactions, user, emoji) ==
  {i \in ReactionsOf(reactions, user) : emoji = NoEmoji \/ reactions[i].emoji = emoji}

\* C21: removeReaction with an emoji removes the user's reaction only when it
\* bears that emoji, without emoji it removes the user's reaction whatever its
\* emoji; when nothing matches it answers 404, changes no reaction and emits
\* nothing; no save of a removeReaction removes a reaction of another user.
C21_RemoveReaction ==
  /\ [][\A u \in Users, m \in Ids, e \in Emojis \cup {NoEmoji} :
          removeReaction(u, m, e) =>
            LET gone == Targeted(msgs[m].reactions, u, e) IN
            IF gone = {}
            THEN /\ resp'.op = "removeReaction"
                 /\ resp'.status = 404
                 /\ resp'.events = << >>
                 /\ msgs' = msgs
                 /\ reqs' = reqs
            ELSE \E s \in Slots :
                   /\ IsFree(s)
                   /\ reqs'[s].op = "removeReaction"
                   /\ reqs'[s].change.reactions = DropAt(msgs[m].reactions, gone, 1)]_vars
  /\ [][\A s \in Slots :
          (SaveReaction(s) /\ reqs[s].op = "removeReaction") =>
            LET r == reqs[s] IN
            /\ resp'.status = 200 => msgs'[r.mid].reactions = r.change.reactions
            /\ resp'.status # 200 => msgs' = msgs
            /\ \A o \in Users \ {r.user} :
                 Cardinality(ReactionsOf(msgs'[r.mid].reactions, o)) =
                   Cardinality(ReactionsOf(msgs[r.mid].reactions, o))]_vars

\* a removal naming an emoji the user's reaction does not bear was answered 404
C21_Witness ==
  /\ resp.op = "removeReaction"
  /\ resp.status = 404
  /\ Exists(resp.mid)
  /\ \E i \in ReactionsOf(msgs[resp.mid].reactions, resp.user) :
       msgs[resp.mid].reactions[i].emoji = "heart"
  /\ \A s \in Slots : IsFree(s)

\* ------------------------------------------------------ push as fallback
\* C22: a push for a sent message is dispatched only when no socket was in the
\* recipient's room at the newMessage emit: a send whose newMessage reached a
\* socket has no push.
C22_PushOnlyWhenOffline ==
  (/\ IsSendOp(resp.op)
   /\ resp.status = 201
   /\ resp.events # << >>
   /\ resp.events[1].to # {}) =>
    ~\E t \in pushes : t.mid = resp.mid

\* --------------------------------------------------------------- typing
\* C23: a typing event with a recipientId reaches every socket registered for
\* the recipient and no other socket, the sender's own sockets included; one
\* without recipientId reaches nobody; no stored message changes.
C23_TypingToRecipient ==
  [][\A s \in Users, r \in Users \cup {NoUser} :
       typing(s, r) =>
         /\ msgs' = msgs
         /\ IF r = NoUser THEN resp'.events = << >>
            ELSE /\ resp'.events # << >>
                 /\ Receivers(resp'.events) = ChannelsOf(r)]_vars

\* a typing event reached a socket of the recipient and not a socket of the sender
C23_Witness ==
  /\ resp.op = "typing"
  /\ resp.other \in Users \ {resp.user}
  /\ Receivers(resp.events) # {}
  /\ Receivers(resp.events) = ChannelsOf(resp.other)
  /\ ChannelsOf(resp.user) \ Receivers(resp.events) # {}
  /\ Len(msgs) = 1

\* --------------------------------------------------------------- window
\* the limit in force: the requested one within 1..100, 50 when absent or zero
LimitInForce(l) ==
  IF l = 0 THEN DefaultLimit ELSE IF l < 1 THEN 1 ELSE IF l > MaxLimit THEN MaxLimit ELSE l

\* the messages of the pair that satisfy the cursor, the text query and the
\* date range of a listMessages call
Wanted(u, o, b, q, st, en) ==
  {id \in PairIds(u, o) :
     /\ b # 0 => msgs[id].createdAt < b
     /\ st # 0 => msgs[id].createdAt >= st
     /\ en # 0 => msgs[id].createdAt <= endOfDay(en)
     /\ HasQuery(q) => MatchesText(msgs[id].content, q)}

\* the messages of a thread that satisfy the cursor of a fetchThread call
WantedInThread(t, b) ==
  {id \in Ids : msgs[id].threadId = t /\ (b # 0 => msgs[id].createdAt < b)}

\* r is the window of the L newest messages of M, oldest first
IsWindow(r, M, L) ==
  /\ Len(r.messages) = Min(L, Cardinality(M))
  /\ Cardinality(Range(r.messages)) = Len(r.messages)
  /\ Range(r.messages) \subseteq M
  /\ Ascending(r.messages)
  /\ r.hasMore = (Cardinality(M) > L)
  /\ \A x \in Range(r.messages), y \in M \ Range(r.messages) :
       msgs[y].createdAt <= msgs[x].createdAt

WindowLimits == {0 - 1, 0, 1, 2, MaxLimit + 1}

\* C24: listMessages and fetchThread return at most L messages, L the
\* requested limit within 1..100 (50 when absent or zero), oldest first, the L
\* newest of those that match the query (pair or thread, cursor, filters), and
\* hasMore is true exactly when more than L match.
C24_NewestWindow ==
  /\ \A u \in {"u1", "u2"}, b \in {0} \cup Cursors, l \in WindowLimits, q \in Queries,
        st \in Dates, en \in Dates :
       IsWindow(getMessagesResult(u, "u2", b, l, q, st, en),
                Wanted(u, "u2", b, q, st, en), LimitInForce(l))
  /\ \A t \in Ids \cup {GhostId}, b \in {0} \cup Cursors, l \in WindowLimits :
       IsWindow(getThreadMessagesResult(t, b, l), WantedInThread(t, b), LimitInForce(l))

\* ------------------------------------------------------------- parties
IsParty(u, id) == msgs[id].sender = u \/ msgs[id].recipient = u

\* C25: listMessages and fetchThread answer a requester only with messages the
\* requester sent or received, never with a message between two other users.
C25_ReadOnlyOwnMessages ==
  (resp.op \in {"getMessages", "getThreadMessages"} /\ resp.status = 200) =>
    \A id \in Range(resp.messages) : IsParty(resp.user, id)

\* C29: a toggleReaction or removeReaction by a user who is neither sender nor
\* recipient of a message leaves its reactions as they are, so every reaction on
\* a message is by its sender or its recipient.
C29_ReactionsByParties ==
  \A id \in Ids : \A i \in 1..Len(msgs[id].reactions) :
    IsParty(msgs[id].reactions[i].user, id)

FailureStatuses == {400, 404, 500}

\* C27: a send answered 400, 404 or 500 has stored no message, also when the
\* failure comes after the first insert: the step that answers the failure
\* stores nothing and ends no request that had stored a message.
C27_FailedSendStoresNothing ==
  [][(resp' # resp /\ IsSendOp(resp'.op) /\ resp'.status \in FailureStatuses) =>
       (msgs' = msgs /\ reqs' = reqs)]_vars

\* ------------------------------------------------------ thread and pair
Pair(id) == {msgs[id].sender, msgs[id].recipient}

\* C28: any two stored messages with the same non-null threadId are between
\* the same two users, whatever replyTo ids the senders gave.
C28_ThreadWithinPair ==
  \A a \in Ids, b \in Ids :
    (msgs[a].threadId # NoId /\ msgs[a].threadId = msgs[b].threadId) => Pair(a) = Pair(b)

\* ------------------------------------------------------ channel identity
\* C30: a socket is registered under at most one user id, the one of its first
\* join, until it disconnects, and a disconnect leaves it in no room.
C30_OneUserPerChannel ==
  /\ [](\A k \in Sockets : Cardinality(sockets[k]) <= 1)
  /\ [][\A k \in Sockets :
          /\ (sockets[k] # {} /\ sockets'[k] # {}) => sockets'[k] = sockets[k]
          /\ disconnect(k) => sockets'[k] = {}]_vars
====
